---- MODULE Spec2Model ----
(***************************************************************************)
(* Model of the three request handlers of src/app.py (FreeFire-Api):       *)
(*   /get_search_account_by_keyword   get_search_account_by_keyword()      *)
(*   /get_player_stats                get_player_stat()                    *)
(*   /get_player_personal_show        get_account_info()                   *)
(* Each handler validates its query parameters, calls get_garena_token,    *)
(* get_major_login and one data function of the game client, and shapes a  *)
(* response.  The external functions are opaque: the model lets each call  *)
(* return any value or raise any exception of a small set of kinds.        *)
(*                                                                         *)
(* Python strings are sequences of one-character strings, dictionaries are *)
(* functions whose DOMAIN is the set of keys present.                      *)
(***************************************************************************)
EXTENDS Integers, Sequences, FiniteSets, TLC

(***************************************************************************)
(* Bounds                                                                  *)
(***************************************************************************)
MaxKeywordLen == 4
MaxUidLen == 2

(***************************************************************************)
(* Python string operations used by the handlers                           *)
(***************************************************************************)
LowerAlpha == <<"a","b","c","d","e","f","g","h","i","j","k","l","m",
                "n","o","p","q","r","s","t","u","v","w","x","y","z">>
UpperAlpha == <<"A","B","C","D","E","F","G","H","I","J","K","L","M",
                "N","O","P","Q","R","S","T","U","V","W","X","Y","Z">>
Digits == <<"0","1","2","3","4","5","6","7","8","9">>

UpperChar(c) ==
    IF \E i \in DOMAIN LowerAlpha : LowerAlpha[i] = c
    THEN UpperAlpha[CHOOSE i \in DOMAIN LowerAlpha : LowerAlpha[i] = c]
    ELSE c

LowerChar(c) ==
    IF \E i \in DOMAIN UpperAlpha : UpperAlpha[i] = c
    THEN LowerAlpha[CHOOSE i \in DOMAIN UpperAlpha : UpperAlpha[i] = c]
    ELSE c

\* str.upper()
Upper(s) == [i \in DOMAIN s |-> UpperChar(s[i])]

\* str.lower()
Lower(s) == [i \in DOMAIN s |-> LowerChar(s[i])]

IsSpace(c) == c = " "

RECURSIVE LStrip(_)
LStrip(s) == IF s # <<>> /\ IsSpace(Head(s)) THEN LStrip(Tail(s)) ELSE s

RECURSIVE RStrip(_)
RStrip(s) ==
    IF s # <<>> /\ IsSpace(s[Len(s)]) THEN RStrip(SubSeq(s, 1, Len(s) - 1)) ELSE s

\* str.strip()
Strip(s) == RStrip(LStrip(s))

\* a decimal digit (str.isdecimal, and what int() accepts)
IsDecimalChar(c) == \E i \in DOMAIN Digits : Digits[i] = c

\* the one character U+00B2 SUPERSCRIPT TWO: a digit for str.isdigit() that is
\* not a decimal digit
SuperscriptTwo == "sup2"

\* the characters str.isdigit() accepts: the decimal digits and the other
\* characters of Unicode numeric type Digit
IsDigitChar(c) == IsDecimalChar(c) \/ c = SuperscriptTwo

DigitVal(c) == (CHOOSE i \in DOMAIN Digits : Digits[i] = c) - 1

\* str.isdigit(): non-empty and every character a digit
IsDigit(s) == s # <<>> /\ \A i \in DOMAIN s : IsDigitChar(s[i])

\* non-empty and every character a decimal digit
IsDecimal(s) == s # <<>> /\ \A i \in DOMAIN s : IsDecimalChar(s[i])

RECURSIVE DigitsVal(_)
DigitsVal(s) ==
    IF s = <<>> THEN 0 ELSE 10 * DigitsVal(SubSeq(s, 1, Len(s) - 1)) + DigitVal(s[Len(s)])

\* int(str): surrounding whitespace stripped, an optional sign, then decimal
\* digits; anything else raises ValueError.
IntParses(s) ==
    LET t == Strip(s)
        u == IF t # <<>> /\ Head(t) \in {"-", "+"} THEN Tail(t) ELSE t
    IN  IsDecimal(u)

IntValue(s) ==
    LET t == Strip(s)
        neg == t # <<>> /\ Head(t) = "-"
        u == IF t # <<>> /\ Head(t) \in {"-", "+"} THEN Tail(t) ELSE t
    IN  IF neg THEN 0 - DigitsVal(u) ELSE DigitsVal(u)

\* all strings over alphabet A of length at most n
RECURSIVE StringsUpTo(_, _)
StringsUpTo(A, n) ==
    IF n = 0 THEN {<<>>}
    ELSE LET S == StringsUpTo(A, n - 1)
         IN  S \cup {Append(s, c) : s \in {x \in S : Len(x) = n - 1}, c \in A}

(***************************************************************************)
(* Python dictionaries and values                                          *)
(***************************************************************************)
EmptyMap == [x \in {} |-> <<>>]

Opt(k, V) == {[x \in {k} |-> v] : v \in V} \cup {EmptyMap}

Merge(f, g) == [x \in DOMAIN f \cup DOMAIN g |-> IF x \in DOMAIN f THEN f[x] ELSE g[x]]

\* dict.get(k, default), as request.args.get
Get(d, k, default) == IF k \in DOMAIN d THEN d[k] ELSE default

PyNone == [t |-> "None"]
PyDict(d) == [t |-> "dict", d |-> d]
PyList(items) == [t |-> "list", items |-> items]
\* a value json cannot serialise (any other Python object)
PyObject == [t |-> "object"]

\* truth value of a Python value, as tested by `not x`
Truthy(v) ==
    CASE v.t = "None" -> FALSE
      [] v.t = "dict" -> DOMAIN v.d # {}
      [] v.t = "list" -> Len(v.items) > 0
      [] OTHER -> TRUE

\* `k in v` for a dictionary v
HasKey(v, k) == v.t = "dict" /\ k \in DOMAIN v.d

(***************************************************************************)
(* Exceptions, handler steps and responses                                 *)
(***************************************************************************)
Exc(cls, msg) == [cls |-> cls, msg |-> msg]

\* the KeyError of a failed dictionary lookup d[k]; str(e) is the quoted key
KeyErrorOf(k) == Exc("KeyError", k)

\* a handler segment ends by returning a response, by invoking an external
\* function (and blocking on it), or by raising
Return(resp) == [do |-> "return", resp |-> resp]
Call(fn, cargs, loc) == [do |-> "call", fn |-> fn, args |-> cargs, loc |-> loc]
Raise(e) == [do |-> "raise", exc |-> e]

\* the outcome of an external call
Returned(v) == [kind |-> "return", val |-> v]
Raised(e) == [kind |-> "raise", exc |-> e]

\* an f-string: its literal text and the interpolated values
FStr(text, fargs) == [text |-> text, args |-> fargs]

\* (body, status): json is the JSON type of the body
Response(status, json, body) == [status |-> status, json |-> json, body |-> body]

\* jsonify(dict) / json.dumps(dict)
JsonObject(status, body) == Response(status, "object", body)

\* the JSON type json.dumps gives a Python value
JsonTypeOf(v) ==
    CASE v.t = "None" -> "null"
      [] v.t = "dict" -> "object"
      [] v.t = "list" -> "array"

\* json.dumps / jsonify raise TypeError on a value that is not serialisable
Serialisable(v) == v.t \in {"None", "dict", "list"}

(***************************************************************************)
(* The account registry (accounts = load_accounts()) and the request       *)
(* parameters the model draws from                                         *)
(***************************************************************************)
IND == <<"I", "N", "D">>
BR == <<"B", "R">>
SG == <<"S", "G">>

Registries ==
    { (IND :> [uid |-> "uid-ind", password |-> "pw-ind"])
        @@ (BR :> [uid |-> "uid-br", password |-> "pw-br"]),
      (IND :> [uid |-> "uid-ind", password |-> "pw-ind"])
        @@ (SG :> [uid |-> "uid-sg"]) }

ServerVals == {<<"i", "n", "d">>, BR, <<"s", "g">>, <<"X", "X">>, <<>>}
KeywordVals == StringsUpTo({"a", " "}, MaxKeywordLen)
UidVals == StringsUpTo({"0", "1", "-", "a", SuperscriptTwo}, MaxUidLen)
GamemodeVals == {<<"b", "r">>, <<"C", "S">>, <<"x", "x">>}
MatchmodeVals == {<<"c", "a", "r", "e", "e", "r">>, <<"R", "A", "N", "K", "E", "D">>,
                  <<"N", "o", "r", "m", "a", "l">>, <<"z", "z">>}
GalleryVals == {<<"T", "R", "U", "E">>, <<"0">>, <<"m", "a", "y", "b", "e">>, <<>>}
CallSignVals == {<<"7">>, <<"0">>, <<"-", "1">>, <<"x">>}

SearchArgs ==
    {Merge(s, k) : s \in Opt("server", ServerVals), k \in Opt("keyword", KeywordVals)}

StatsArgs ==
    {Merge(Merge(s, u), Merge(g, m)) :
        s \in Opt("server", ServerVals), u \in Opt("uid", UidVals),
        g \in Opt("gamemode", GamemodeVals), m \in Opt("matchmode", MatchmodeVals)}

PersonalShowArgs ==
    {Merge(Merge(s, u), Merge(g, c)) :
        s \in Opt("server", ServerVals), u \in Opt("uid", UidVals),
        g \in Opt("need_gallery_info", GalleryVals), c \in Opt("call_sign_src", CallSignVals)}

(***************************************************************************)
(* What the external functions may do                                      *)
(***************************************************************************)
ExcClasses == {"ValueError", "ConnectionError", "KeyError", "ProtobufError", "APIError", "Exception"}

Failures == {Raised(Exc(c, "boom")) : c \in ExcClasses}

TokenOutcomes ==
    Failures \cup {Returned(PyNone)}
      \cup {Returned(PyDict(Merge(a, o))) :
              a \in Opt("access_token", {"at1", "at2"}), o \in Opt("open_id", {"oid1"})}

LoginOutcomes ==
    Failures \cup {Returned(PyNone)}
      \cup {Returned(PyDict(Merge(t, u))) :
              t \in Opt("token", {"jwt1", "jwt2"}), u \in Opt("serverUrl", {"url1"})}

DataOutcomes ==
    Failures \cup
      {Returned(v) : v \in {PyNone, PyDict(EmptyMap), PyDict([nickname |-> "p1"]),
                            PyList(<<>>), PyList(<<"p1">>), PyObject}}

(***************************************************************************)
(* State                                                                   *)
(***************************************************************************)
VARIABLES
    accounts,    \* the account registry, loaded at import time
    pc,          \* per request: "idle", the external function it is blocked in, "done", "escaped"
    endpoint,    \* per request: the route it was sent to
    args,        \* per request: request.args
    locals,      \* per request: the handler's local variables
    calls,       \* per request: the external calls invoked so far, in order
    results,     \* per request: the outcomes of those calls, in order
    responses    \* per request: the responses returned so far

vars == <<accounts, pc, endpoint, args, locals, calls, results, responses>>

Requests == {"r1"}

(***************************************************************************)
(* /get_search_account_by_keyword                                          *)
(***************************************************************************)
SearchError(status, msg) == JsonObject(status, [error |-> msg])

\* SearchExcept answering a KeyError with status 400
SearchExcept_KeyError400(step) ==
    IF step.do # "raise" THEN step
    ELSE IF step.exc.cls = "KeyError"
         THEN Return(SearchError(400, FStr("Missing configuration: {str(e)}", <<step.exc.msg>>)))
         ELSE Return(SearchError(500, FStr("Internal server error: {str(e)}", <<step.exc.msg>>)))

\* lines 58-61: the handler's except clauses
SearchExcept(step) ==
    IF step.do # "raise" THEN step
    ELSE IF step.exc.cls = "KeyError"
         THEN Return(SearchError(500, FStr("Missing configuration: {str(e)}", <<step.exc.msg>>)))
         ELSE Return(SearchError(500, FStr("Internal server error: {str(e)}", <<step.exc.msg>>)))

\* SearchValidate measuring the keyword without strip()
SearchValidate_NoStrip(a, accts) ==
    LET region == Upper(Get(a, "server", IND))
        loc == [region |-> region]
    IN  IF "keyword" \notin DOMAIN a \/ a["keyword"] = <<>>
        THEN Return(SearchError(400, FStr("Keyword parameter is required", <<>>)))
        ELSE IF Len(a["keyword"]) < 3
        THEN Return(SearchError(400, FStr("Keyword must be at least 3 characters long", <<>>)))
        ELSE IF region \notin DOMAIN accts
        THEN Return(SearchError(400, FStr("Invalid server: {region}", <<region>>)))
        ELSE IF "uid" \notin DOMAIN accts[region] THEN Raise(KeyErrorOf("'uid'"))
        ELSE IF "password" \notin DOMAIN accts[region] THEN Raise(KeyErrorOf("'password'"))
        ELSE Call("get_garena_token", <<accts[region]["uid"], accts[region]["password"]>>,
                  Merge([search_term |-> a["keyword"]], loc))

\* lines 26-42: parameters, validation, and the call of get_garena_token
SearchValidate(a, accts) ==
    LET region == Upper(Get(a, "server", IND))
        loc == [region |-> region]
    IN  IF "keyword" \notin DOMAIN a \/ a["keyword"] = <<>>
        THEN Return(SearchError(400, FStr("Keyword parameter is required", <<>>)))
        ELSE IF Len(Strip(a["keyword"])) < 3
        THEN Return(SearchError(400, FStr("Keyword must be at least 3 characters long", <<>>)))
        ELSE IF region \notin DOMAIN accts
        THEN Return(SearchError(400, FStr("Invalid server: {region}", <<region>>)))
        ELSE IF "uid" \notin DOMAIN accts[region] THEN Raise(KeyErrorOf("'uid'"))
        ELSE IF "password" \notin DOMAIN accts[region] THEN Raise(KeyErrorOf("'password'"))
        ELSE Call("get_garena_token", <<accts[region]["uid"], accts[region]["password"]>>,
                  Merge([search_term |-> a["keyword"]], loc))

\* lines 42-47: the result of get_garena_token, and the call of get_major_login
SearchAuthenticate(loc, out) ==
    IF out.kind = "raise" THEN Raise(out.exc)
    ELSE LET auth_response == out.val
         IN  IF ~Truthy(auth_response) \/ ~HasKey(auth_response, "access_token")
             THEN Return(SearchError(401, FStr("Authentication failed", <<>>)))
             ELSE IF ~HasKey(auth_response, "open_id") THEN Raise(KeyErrorOf("'open_id'"))
             ELSE Call("get_major_login",
                       <<auth_response.d["access_token"], auth_response.d["open_id"]>>,
                       Merge([auth_response |-> auth_response], loc))

\* SearchLogin reading the server URL with login_response.get("serverUrl")
SearchLogin_GetServerUrl(loc, out) ==
    IF out.kind = "raise" THEN Raise(out.exc)
    ELSE LET login_response == out.val
         IN  IF ~Truthy(login_response) \/ ~HasKey(login_response, "token")
             THEN Return(SearchError(401, FStr("Major login failed", <<>>)))
             ELSE Call("search_account_by_keyword",
                       <<Get(login_response.d, "serverUrl", "None"), login_response.d["token"],
                         loc["search_term"]>>,
                       Merge([login_response |-> login_response], loc))

\* lines 47-52: the result of get_major_login, and the call of search_account_by_keyword
SearchLogin(loc, out) ==
    IF out.kind = "raise" THEN Raise(out.exc)
    ELSE LET login_response == out.val
         IN  IF ~Truthy(login_response) \/ ~HasKey(login_response, "token")
             THEN Return(SearchError(401, FStr("Major login failed", <<>>)))
             ELSE IF ~HasKey(login_response, "serverUrl") THEN Raise(KeyErrorOf("'serverUrl'"))
             ELSE Call("search_account_by_keyword",
                       <<login_response.d["serverUrl"], login_response.d["token"], loc["search_term"]>>,
                       Merge([login_response |-> login_response], loc))

\* SearchResults answering 404 to an empty result, as the other two handlers do
SearchResults_404OnEmpty(loc, out) ==
    IF out.kind = "raise" THEN Raise(out.exc)
    ELSE LET search_results == out.val
         IN  IF ~Truthy(search_results) THEN Return(SearchError(404, FStr("No results", <<>>)))
             ELSE IF ~Serialisable(search_results) THEN Raise(Exc("TypeError", "not JSON serializable"))
             ELSE Return(Response(200, JsonTypeOf(search_results), search_results))

\* lines 52-56: the result of search_account_by_keyword is serialised as it is
SearchResults(loc, out) ==
    IF out.kind = "raise" THEN Raise(out.exc)
    ELSE LET search_results == out.val
         IN  IF ~Serialisable(search_results) THEN Raise(Exc("TypeError", "not JSON serializable"))
             ELSE Return(Response(200, JsonTypeOf(search_results), search_results))

(***************************************************************************)
(* /get_player_stats                                                       *)
(***************************************************************************)
StatsError(status, error, msg) ==
    JsonObject(status, [success |-> FALSE, error |-> error, message |-> msg])

\* KeyList with the region codes written out instead of read from the registry
KeyList_Hardcoded(accts) == {IND, BR}

\* list(accounts.keys()): every key of the registry, once
KeyList(accts) == DOMAIN accts

\* lines 207-213: the handler's outermost except clause
StatsExcept(step) ==
    IF step.do # "raise" THEN step
    ELSE Return(StatsError(500, "Internal server error",
                FStr("An unexpected error occurred while processing your request", <<>>)))

\* lines 122-127: the except clause of step 1
StatsTokenExcept(step) ==
    IF step.do # "raise" THEN step
    ELSE Return(StatsError(502, "Garena authentication error",
                FStr("Failed to authenticate with Garena: {str(e)}", <<step.exc.msg>>)))

\* StatsLoginExcept with the status of the data fetch's connection error
StatsLoginExcept_503(step) ==
    IF step.do # "raise" THEN step
    ELSE Return(StatsError(503, "Major login error",
                FStr("Failed to login to Major: {str(e)}", <<step.exc.msg>>)))

\* lines 140-145: the except clause of step 2
StatsLoginExcept(step) ==
    IF step.do # "raise" THEN step
    ELSE Return(StatsError(502, "Major login error",
                FStr("Failed to login to Major: {str(e)}", <<step.exc.msg>>)))

\* StatsFetchExcept reporting a ValueError of the data function as the
\* rejection of the uid
StatsFetchExcept_ValueErrorAsInvalidUid(step) ==
    IF step.do # "raise" THEN step
    ELSE IF step.exc.cls = "ValueError"
         THEN Return(StatsError(400, "Invalid UID", FStr("{str(e)}", <<step.exc.msg>>)))
         ELSE IF step.exc.cls = "ConnectionError"
         THEN Return(StatsError(503, "Connection error", FStr("{str(e)}", <<step.exc.msg>>)))
         ELSE Raise(Exc("NameError", "name 'ProtobufError' is not defined"))

\* lines 176-205: the except clauses of step 3, tried in order.  ProtobufError
\* and APIError are not bound in app.py (lines 1-9 import neither), so
\* evaluating the third clause raises NameError, which leaves the try
\* statement for the outermost except clause.
StatsFetchExcept(step) ==
    IF step.do # "raise" THEN step
    ELSE IF step.exc.cls = "ValueError"
         THEN Return(StatsError(400, "Invalid request parameters", FStr("{str(e)}", <<step.exc.msg>>)))
         ELSE IF step.exc.cls = "ConnectionError"
         THEN Return(StatsError(503, "Connection error", FStr("{str(e)}", <<step.exc.msg>>)))
         ELSE Raise(Exc("NameError", "name 'ProtobufError' is not defined"))

\* lines 113: step 1 up to the call of get_garena_token
StatsTokenCall(loc, accts) ==
    LET server == loc["server"]
    IN  IF "uid" \notin DOMAIN accts[server] THEN Raise(KeyErrorOf("'uid'"))
        ELSE IF "password" \notin DOMAIN accts[server] THEN Raise(KeyErrorOf("'password'"))
        ELSE Call("get_garena_token", <<accts[server]["uid"], accts[server]["password"]>>, loc)

\* lines 67-113: parameters, validation, and the call of get_garena_token
StatsValidate(a, accts) ==
    LET server == Upper(Get(a, "server", IND))
        gamemode == Lower(Get(a, "gamemode", <<"b", "r">>))
        matchmode == Upper(Get(a, "matchmode", <<"C", "A", "R", "E", "E", "R">>))
    IN  IF "uid" \notin DOMAIN a \/ a["uid"] = <<>>
        THEN Return(StatsError(400, "Missing required parameter",
                    FStr("UID parameter is required", <<>>)))
        ELSE IF ~IsDigit(a["uid"])
        THEN Return(StatsError(400, "Invalid UID", FStr("UID must be a numeric value", <<>>)))
        ELSE IF server \notin DOMAIN accts
        THEN Return(StatsError(400, "Invalid server",
                    FStr("Server '{server}' not found. Available servers: {list(accounts.keys())}",
                         <<server, KeyList(accts)>>)))
        ELSE IF gamemode \notin {<<"b", "r">>, <<"c", "s">>}
        THEN Return(StatsError(400, "Invalid gamemode", FStr("Gamemode must be 'br' or 'cs'", <<>>)))
        ELSE IF matchmode \notin {<<"C", "A", "R", "E", "E", "R">>, <<"N", "O", "R", "M", "A", "L">>,
                                  <<"R", "A", "N", "K", "E", "D">>}
        THEN Return(StatsError(400, "Invalid matchmode",
                    FStr("Matchmode must be 'CAREER', 'NORMAL', or 'RANKED'", <<>>)))
        ELSE StatsTokenExcept(StatsTokenCall(
                 [server |-> server, uid |-> a["uid"], gamemode |-> gamemode,
                  matchmode |-> matchmode], accts))

\* StatsToken passing get_major_login a token kept from an earlier request
\* instead of the one just obtained
StatsToken_SharedToken(loc, out) ==
    IF out.kind = "raise" THEN StatsTokenExcept(Raise(out.exc))
    ELSE LET garena_token_result == out.val
         IN  IF ~Truthy(garena_token_result) \/ ~HasKey(garena_token_result, "access_token")
             THEN Return(StatsError(401, "Garena authentication failed",
                         FStr("Failed to obtain Garena access token", <<>>)))
             ELSE StatsLoginExcept(
                    IF ~HasKey(garena_token_result, "open_id") THEN Raise(KeyErrorOf("'open_id'"))
                    ELSE Call("get_major_login", <<"at1", garena_token_result.d["open_id"]>>,
                              Merge([garena_token_result |-> garena_token_result], loc)))

\* lines 113-131: the result of get_garena_token (step 1), and step 2 up to the
\* call of get_major_login
StatsToken(loc, out) ==
    IF out.kind = "raise" THEN StatsTokenExcept(Raise(out.exc))
    ELSE LET garena_token_result == out.val
         IN  IF ~Truthy(garena_token_result) \/ ~HasKey(garena_token_result, "access_token")
             THEN Return(StatsError(401, "Garena authentication failed",
                         FStr("Failed to obtain Garena access token", <<>>)))
             ELSE StatsLoginExcept(
                    IF ~HasKey(garena_token_result, "open_id") THEN Raise(KeyErrorOf("'open_id'"))
                    ELSE Call("get_major_login",
                              <<garena_token_result.d["access_token"], garena_token_result.d["open_id"]>>,
                              Merge([garena_token_result |-> garena_token_result], loc)))

\* lines 131-155: the result of get_major_login (step 2), and step 3 up to the
\* call of get_player_stats
StatsLogin(loc, out) ==
    IF out.kind = "raise" THEN StatsLoginExcept(Raise(out.exc))
    ELSE LET major_login_result == out.val
         IN  IF ~Truthy(major_login_result) \/ ~HasKey(major_login_result, "token")
             THEN Return(StatsError(401, "Major login failed",
                         FStr("Failed to obtain Major login token", <<>>)))
             ELSE StatsFetchExcept(
                    IF ~HasKey(major_login_result, "serverUrl") THEN Raise(KeyErrorOf("'serverUrl'"))
                    ELSE Call("get_player_stats",
                              <<major_login_result.d["token"], major_login_result.d["serverUrl"],
                                loc["gamemode"], loc["uid"], loc["matchmode"]>>,
                              Merge([major_login_result |-> major_login_result], loc)))

\* StatsFetch without the test of line 157
StatsFetch_NoEmptyCheck(loc, out) ==
    IF out.kind = "raise" THEN Raise(out.exc)
    ELSE LET player_stats == out.val
         IN  IF ~Serialisable(player_stats)
             THEN Raise(Exc("TypeError", "not JSON serializable"))
             ELSE Return(JsonObject(200,
                    [success |-> TRUE, data |-> player_stats,
                     metadata |-> [server |-> loc["server"], uid |-> loc["uid"],
                                   gamemode |-> loc["gamemode"], matchmode |-> loc["matchmode"]]]))

\* StatsFetch echoing the gamemode in upper case in the metadata
StatsFetch_UpperGamemode(loc, out) ==
    IF out.kind = "raise" THEN Raise(out.exc)
    ELSE LET player_stats == out.val
         IN  IF ~Truthy(player_stats)
             THEN Return(StatsError(404, "No stats data",
                         FStr("No player statistics found for the given parameters", <<>>)))
             ELSE IF ~Serialisable(player_stats)
             THEN Raise(Exc("TypeError", "not JSON serializable"))
             ELSE Return(JsonObject(200,
                    [success |-> TRUE, data |-> player_stats,
                     metadata |-> [server |-> loc["server"], uid |-> loc["uid"],
                                   gamemode |-> Upper(loc["gamemode"]),
                                   matchmode |-> loc["matchmode"]]]))

\* lines 149-174: the result of get_player_stats
StatsFetch(loc, out) ==
    IF out.kind = "raise" THEN Raise(out.exc)
    ELSE LET player_stats == out.val
         IN  IF ~Truthy(player_stats)
             THEN Return(StatsError(404, "No stats data",
                         FStr("No player statistics found for the given parameters", <<>>)))
             ELSE IF ~Serialisable(player_stats)
             THEN Raise(Exc("TypeError", "not JSON serializable"))
             ELSE Return(JsonObject(200,
                    [success |-> TRUE, data |-> player_stats,
                     metadata |-> [server |-> loc["server"], uid |-> loc["uid"],
                                   gamemode |-> loc["gamemode"], matchmode |-> loc["matchmode"]]]))

(***************************************************************************)
(* /get_player_personal_show                                               *)
(***************************************************************************)
PersonalError(status, error, msg, code) ==
    JsonObject(status, [status |-> "error", error |-> error, message |-> msg, code |-> code])

\* PersonalExcept catching KeyError only
PersonalExcept_OnlyKeyError(step) ==
    IF step.do # "raise" \/ step.exc.cls # "KeyError" THEN step
    ELSE Return(PersonalError(500, "Internal Server Error",
                FStr("An unexpected error occurred while processing your request.", <<>>),
                "INTERNAL_SERVER_ERROR"))

\* lines 359-372: the handler's except clause
PersonalExcept(step) ==
    IF step.do # "raise" THEN step
    ELSE Return(PersonalError(500, "Internal Server Error",
                FStr("An unexpected error occurred while processing your request.", <<>>),
                "INTERNAL_SERVER_ERROR"))

\* lines 268-275: the boolean tokens of need_gallery_info
GalleryTokenValid(s) ==
    Lower(s) \in {<<"t", "r", "u", "e">>, <<"1">>, <<"y", "e", "s">>,
                  <<"f", "a", "l", "s", "e">>, <<"0">>, <<"n", "o">>}

GalleryTokenValue(s) == Lower(s) \in {<<"t", "r", "u", "e">>, <<"1">>, <<"y", "e", "s">>}

\* lines 219-316: parameters, validation, and the call of get_garena_token
PersonalValidate(a, accts) ==
    LET server == Upper(Get(a, "server", IND))
        uid_int == IntValue(a["uid"])
        need_gallery_info ==
            IF "need_gallery_info" \in DOMAIN a THEN GalleryTokenValue(a["need_gallery_info"])
            ELSE FALSE
        call_sign_src_int ==
            IF "call_sign_src" \in DOMAIN a THEN IntValue(a["call_sign_src"]) ELSE 7
    IN  IF "uid" \notin DOMAIN a \/ a["uid"] = <<>>
        THEN Return(PersonalError(400, "Missing UID",
                    FStr("Empty 'uid' parameter. Please provide a valid 'uid'.", <<>>), "MISSING_UID"))
        ELSE IF ~IntParses(a["uid"])
        THEN Return(PersonalError(400, "Invalid UID", FStr("UID must be a valid integer.", <<>>),
                    "INVALID_UID_FORMAT"))
        ELSE IF uid_int <= 0
        THEN Return(PersonalError(400, "Invalid UID", FStr("UID must be a positive integer.", <<>>),
                    "INVALID_UID_RANGE"))
        ELSE IF server \notin DOMAIN accts
        THEN Return(JsonObject(400,
                    [status |-> "error", error |-> "Invalid Server",
                     message |-> FStr("Server '{server}' not found. Available servers: {list(accounts.keys())}",
                                      <<server, KeyList(accts)>>),
                     available_servers |-> KeyList(accts), code |-> "SERVER_NOT_FOUND"]))
        ELSE IF "need_gallery_info" \in DOMAIN a /\ ~GalleryTokenValid(a["need_gallery_info"])
        THEN Return(PersonalError(400, "Invalid Parameter",
                    FStr("need_gallery_info must be a boolean value (true/false, 1/0).", <<>>),
                    "INVALID_GALLERY_PARAM"))
        ELSE IF "call_sign_src" \in DOMAIN a /\ ~IntParses(a["call_sign_src"])
        THEN Return(PersonalError(400, "Invalid Parameter",
                    FStr("call_sign_src must be a valid integer.", <<>>), "INVALID_CALL_SIGN_FORMAT"))
        ELSE IF call_sign_src_int < 0
        THEN Return(PersonalError(400, "Invalid Parameter",
                    FStr("call_sign_src must be a non-negative integer.", <<>>),
                    "INVALID_CALL_SIGN_SRC"))
        ELSE IF "uid" \notin DOMAIN accts[server] \/ "password" \notin DOMAIN accts[server]
        THEN Return(PersonalError(500, "Server Configuration Error",
                    FStr("Server '{server}' is missing required credentials.", <<server>>),
                    "SERVER_CONFIG_ERROR"))
        ELSE Call("get_garena_token", <<accts[server]["uid"], accts[server]["password"]>>,
                  [server |-> server, uid |-> a["uid"], uid_int |-> uid_int,
                   need_gallery_info |-> need_gallery_info,
                   call_sign_src_int |-> call_sign_src_int])

\* PersonalToken with the test of line 317 cut down to the access token, as
\* lines 43 and 115 have it
PersonalToken_NoOpenIdCheck(loc, out) ==
    IF out.kind = "raise" THEN Raise(out.exc)
    ELSE LET garena_token_result == out.val
         IN  IF ~Truthy(garena_token_result) \/ ~HasKey(garena_token_result, "access_token")
             THEN Return(PersonalError(401, "Authentication Failed",
                         FStr("Failed to obtain Garena token. Invalid credentials or service unavailable.", <<>>),
                         "GARENA_AUTH_FAILED"))
             ELSE IF ~HasKey(garena_token_result, "open_id") THEN Raise(KeyErrorOf("'open_id'"))
             ELSE Call("get_major_login",
                       <<garena_token_result.d["access_token"], garena_token_result.d["open_id"]>>,
                       Merge([garena_token_result |-> garena_token_result], loc))

\* lines 316-327: the result of get_garena_token, and the call of get_major_login
PersonalToken(loc, out) ==
    IF out.kind = "raise" THEN Raise(out.exc)
    ELSE LET garena_token_result == out.val
         IN  IF ~Truthy(garena_token_result) \/ ~HasKey(garena_token_result, "access_token")
                \/ ~HasKey(garena_token_result, "open_id")
             THEN Return(PersonalError(401, "Authentication Failed",
                         FStr("Failed to obtain Garena token. Invalid credentials or service unavailable.", <<>>),
                         "GARENA_AUTH_FAILED"))
             ELSE Call("get_major_login",
                       <<garena_token_result.d["access_token"], garena_token_result.d["open_id"]>>,
                       Merge([garena_token_result |-> garena_token_result], loc))

\* PersonalLogin calling get_major_login a second time when the first result
\* is unusable
PersonalLogin_RetryOnce(loc, out) ==
    IF out.kind = "raise" THEN Raise(out.exc)
    ELSE LET major_login_result == out.val
             garena_token_result == loc["garena_token_result"]
         IN  IF ~Truthy(major_login_result) \/ ~HasKey(major_login_result, "serverUrl")
                \/ ~HasKey(major_login_result, "token")
             THEN IF "retried" \notin DOMAIN loc
                  THEN Call("get_major_login",
                            <<garena_token_result.d["access_token"], garena_token_result.d["open_id"]>>,
                            Merge([retried |-> TRUE], loc))
                  ELSE Return(PersonalError(401, "Login Failed",
                              FStr("Failed to perform major login. Service unavailable.", <<>>),
                              "MAJOR_LOGIN_FAILED"))
             ELSE Call("get_player_personal_show",
                       <<major_login_result.d["serverUrl"], major_login_result.d["token"],
                         loc["uid_int"], loc["need_gallery_info"], loc["call_sign_src_int"]>>,
                       Merge([major_login_result |-> major_login_result], loc))

\* lines 327-344: the result of get_major_login, and the call of get_player_personal_show
PersonalLogin(loc, out) ==
    IF out.kind = "raise" THEN Raise(out.exc)
    ELSE LET major_login_result == out.val
         IN  IF ~Truthy(major_login_result) \/ ~HasKey(major_login_result, "serverUrl")
                \/ ~HasKey(major_login_result, "token")
             THEN Return(PersonalError(401, "Login Failed",
                         FStr("Failed to perform major login. Service unavailable.", <<>>),
                         "MAJOR_LOGIN_FAILED"))
             ELSE Call("get_player_personal_show",
                       <<major_login_result.d["serverUrl"], major_login_result.d["token"],
                         loc["uid_int"], loc["need_gallery_info"], loc["call_sign_src_int"]>>,
                       Merge([major_login_result |-> major_login_result], loc))

\* lines 338-357: the result of get_player_personal_show
PersonalFetch(loc, out) ==
    IF out.kind = "raise" THEN Raise(out.exc)
    ELSE LET player_personal_show_result == out.val
         IN  IF ~Truthy(player_personal_show_result)
             THEN Return(PersonalError(404, "Data Not Found",
                         FStr("No player data found for UID: {uid_int}", <<loc["uid_int"]>>),
                         "PLAYER_DATA_NOT_FOUND"))
             ELSE IF ~Serialisable(player_personal_show_result)
             THEN Raise(Exc("TypeError", "not JSON serializable"))
             ELSE Return(Response(200, JsonTypeOf(player_personal_show_result),
                                  player_personal_show_result))

(***************************************************************************)
(* Actions                                                                 *)
(***************************************************************************)
DataFunctions == {"search_account_by_keyword", "get_player_stats", "get_player_personal_show"}

InitFor(R) ==
    /\ accounts \in Registries
    /\ pc = [r \in R |-> "idle"]
    /\ endpoint = [r \in R |-> "none"]
    /\ args = [r \in R |-> EmptyMap]
    /\ locals = [r \in R |-> EmptyMap]
    /\ calls = [r \in R |-> <<>>]
    /\ results = [r \in R |-> <<>>]
    /\ responses = [r \in R |-> <<>>]

Init == InitFor(Requests)

\* what a handler segment's end does to the request: the response is sent, or
\* the external function is invoked and the handler blocks in it, or the
\* exception leaves the handler
Perform(r, step) ==
    /\ pc' = [pc EXCEPT ![r] = CASE step.do = "return" -> "done"
                                 [] step.do = "call" -> step.fn
                                 [] step.do = "raise" -> "escaped"]
    /\ locals' = [locals EXCEPT ![r] = IF step.do = "call" THEN step.loc ELSE @]
    /\ calls' = [calls EXCEPT ![r] = IF step.do = "call"
                                     THEN Append(@, [fn |-> step.fn, args |-> step.args])
                                     ELSE @]
    /\ responses' = [responses EXCEPT ![r] = IF step.do = "return" THEN Append(@, step.resp) ELSE @]

\* a request arrives at a route and its handler runs up to its first external call
Receive(r, route, a, step) ==
    /\ endpoint' = [endpoint EXCEPT ![r] = route]
    /\ args' = [args EXCEPT ![r] = a]
    /\ Perform(r, step)
    /\ UNCHANGED <<accounts, results>>

\* Resume recording the kind of the last outcome in every account of the
\* registry
Resume_RecordsOutcome(r, out, step) ==
    /\ results' = [results EXCEPT ![r] = Append(@, out)]
    /\ Perform(r, step)
    /\ accounts' = [k \in DOMAIN accounts |-> Merge([last_outcome |-> out.kind], accounts[k])]
    /\ UNCHANGED <<endpoint, args>>

\* the external function the handler is blocked in finishes with outcome out
\* and the handler runs up to its next external call
Resume(r, out, step) ==
    /\ results' = [results EXCEPT ![r] = Append(@, out)]
    /\ Perform(r, step)
    /\ UNCHANGED <<accounts, endpoint, args>>

\* a request with parameters of A arrives at /get_search_account_by_keyword
SearchRequest(r, A) ==
    /\ pc[r] = "idle"
    /\ \E a \in A :
        Receive(r, "search", a, SearchExcept(SearchValidate(a, accounts)))

get_search_account_by_keyword(r) == SearchRequest(r, SearchArgs)

SearchTokenReturns(r) ==
    /\ endpoint[r] = "search" /\ pc[r] = "get_garena_token"
    /\ \E out \in TokenOutcomes :
        Resume(r, out, SearchExcept(SearchAuthenticate(locals[r], out)))

SearchLoginReturns(r) ==
    /\ endpoint[r] = "search" /\ pc[r] = "get_major_login"
    /\ \E out \in LoginOutcomes :
        Resume(r, out, SearchExcept(SearchLogin(locals[r], out)))

SearchFetchReturns(r) ==
    /\ endpoint[r] = "search" /\ pc[r] = "search_account_by_keyword"
    /\ \E out \in DataOutcomes :
        Resume(r, out, SearchExcept(SearchResults(locals[r], out)))

\* a request with parameters of A arrives at /get_player_stats
StatsRequest(r, A) ==
    /\ pc[r] = "idle"
    /\ \E a \in A :
        Receive(r, "stats", a, StatsExcept(StatsValidate(a, accounts)))

get_player_stat(r) == StatsRequest(r, StatsArgs)

StatsTokenReturns(r) ==
    /\ endpoint[r] = "stats" /\ pc[r] = "get_garena_token"
    /\ \E out \in TokenOutcomes :
        Resume(r, out, StatsExcept(StatsToken(locals[r], out)))

StatsLoginReturns(r) ==
    /\ endpoint[r] = "stats" /\ pc[r] = "get_major_login"
    /\ \E out \in LoginOutcomes :
        Resume(r, out, StatsExcept(StatsLogin(locals[r], out)))

StatsFetchReturns(r) ==
    /\ endpoint[r] = "stats" /\ pc[r] = "get_player_stats"
    /\ \E out \in DataOutcomes :
        Resume(r, out, StatsExcept(StatsFetchExcept(StatsFetch(locals[r], out))))

\* a request with parameters of A arrives at /get_player_personal_show
PersonalShowRequest(r, A) ==
    /\ pc[r] = "idle"
    /\ \E a \in A :
        Receive(r, "personal_show", a, PersonalExcept(PersonalValidate(a, accounts)))

get_account_info(r) == PersonalShowRequest(r, PersonalShowArgs)

PersonalTokenReturns(r) ==
    /\ endpoint[r] = "personal_show" /\ pc[r] = "get_garena_token"
    /\ \E out \in TokenOutcomes :
        Resume(r, out, PersonalExcept(PersonalToken(locals[r], out)))

PersonalLoginReturns(r) ==
    /\ endpoint[r] = "personal_show" /\ pc[r] = "get_major_login"
    /\ \E out \in LoginOutcomes :
        Resume(r, out, PersonalExcept(PersonalLogin(locals[r], out)))

PersonalFetchReturns(r) ==
    /\ endpoint[r] = "personal_show" /\ pc[r] = "get_player_personal_show"
    /\ \E out \in DataOutcomes :
        Resume(r, out, PersonalExcept(PersonalFetch(locals[r], out)))

Next ==
    \/ \E r \in DOMAIN pc : get_search_account_by_keyword(r)
    \/ \E r \in DOMAIN pc : SearchTokenReturns(r)
    \/ \E r \in DOMAIN pc : SearchLoginReturns(r)
    \/ \E r \in DOMAIN pc : SearchFetchReturns(r)
    \/ \E r \in DOMAIN pc : get_player_stat(r)
    \/ \E r \in DOMAIN pc : StatsTokenReturns(r)
    \/ \E r \in DOMAIN pc : StatsLoginReturns(r)
    \/ \E r \in DOMAIN pc : StatsFetchReturns(r)
    \/ \E r \in DOMAIN pc : get_account_info(r)
    \/ \E r \in DOMAIN pc : PersonalTokenReturns(r)
    \/ \E r \in DOMAIN pc : PersonalLoginReturns(r)
    \/ \E r \in DOMAIN pc : PersonalFetchReturns(r)

Spec == Init /\ [][Next]_vars

(***************************************************************************)
(* Several requests in flight at once.  The server may run the handlers of *)
(* different requests concurrently; a handler touches nothing but its own  *)
(* locals and the registry between two external calls, so the interleaving *)
(* of the blocking calls is the interleaving of the requests.  The requests *)
(* draw their parameters from a few cases of each route.                   *)
(***************************************************************************)
ConcurrentRequests == {"r1", "r2"}

ConcurrentSearchArgs ==
    {[keyword |-> <<"a", "a", "a">>], [keyword |-> <<"a", "a">>]}

ConcurrentStatsArgs ==
    {[uid |-> <<"1", "0">>, server |-> <<"i", "n", "d">>]}

ConcurrentPersonalShowArgs ==
    {[uid |-> <<"1", "0">>]}

InitConcurrent == InitFor(ConcurrentRequests)

ConcurrentSearch(r) == SearchRequest(r, ConcurrentSearchArgs)
ConcurrentStats(r) == StatsRequest(r, ConcurrentStatsArgs)
ConcurrentPersonalShow(r) == PersonalShowRequest(r, ConcurrentPersonalShowArgs)

NextConcurrent ==
    \/ \E r \in DOMAIN pc : ConcurrentSearch(r)
    \/ \E r \in DOMAIN pc : SearchTokenReturns(r)
    \/ \E r \in DOMAIN pc : SearchLoginReturns(r)
    \/ \E r \in DOMAIN pc : SearchFetchReturns(r)
    \/ \E r \in DOMAIN pc : ConcurrentStats(r)
    \/ \E r \in DOMAIN pc : StatsTokenReturns(r)
    \/ \E r \in DOMAIN pc : StatsLoginReturns(r)
    \/ \E r \in DOMAIN pc : StatsFetchReturns(r)
    \/ \E r \in DOMAIN pc : ConcurrentPersonalShow(r)
    \/ \E r \in DOMAIN pc : PersonalTokenReturns(r)
    \/ \E r \in DOMAIN pc : PersonalLoginReturns(r)
    \/ \E r \in DOMAIN pc : PersonalFetchReturns(r)

SpecConcurrent == InitConcurrent /\ [][NextConcurrent]_vars

TypeOK ==
    /\ accounts \in Registries
    /\ \A r \in DOMAIN pc :
        /\ pc[r] \in {"idle", "get_garena_token", "get_major_login", "done", "escaped"} \cup DataFunctions
        /\ Len(responses[r]) <= 1
        /\ Len(results[r]) <= Len(calls[r])

(***************************************************************************)
(* Vocabulary of the properties                                            *)
(***************************************************************************)
Started(r) == pc[r] # "idle"
Done(r) == pc[r] = "done"
Resp(r) == responses[r][1]
Responded(r) == Len(responses[r]) >= 1

Invoked(r, fn) == \E i \in DOMAIN calls[r] : calls[r][i].fn = fn
DataFetchInvoked(r) == \E fn \in DataFunctions : Invoked(r, fn)
NoExternalCall(r) == calls[r] = <<>>

\* a stage-1 result with both the access token and the open id
TokenUsable(out) ==
    /\ out.kind = "return"
    /\ Truthy(out.val)
    /\ HasKey(out.val, "access_token")
    /\ HasKey(out.val, "open_id")

\* a stage-2 result with both the session token and the server URL
LoginUsable(out) ==
    /\ out.kind = "return"
    /\ Truthy(out.val)
    /\ HasKey(out.val, "token")
    /\ HasKey(out.val, "serverUrl")

Stage1Known(r) == Len(results[r]) >= 1
Stage2Known(r) == Len(results[r]) >= 2
FetchKnown(r) == Len(results[r]) >= 3
Stage1Failed(r) == Stage1Known(r) /\ ~TokenUsable(results[r][1])

\* the server parameter as every handler reads it
RequestedServer(r) == Upper(Get(args[r], "server", IND))

(***************************************************************************)
(* C1: the failure of stage 1                                              *)
(***************************************************************************)
\* C1 as stated: on every endpoint, when get_garena_token fails (it raises,
\* returns nothing, or returns a result lacking the access token or the open
\* id), neither get_major_login nor the data function is invoked and the
\* response status is 401.
C1_Stage1FailureIs401 ==
    \A r \in DOMAIN pc :
        Stage1Failed(r) =>
            /\ ~Invoked(r, "get_major_login")
            /\ ~DataFetchInvoked(r)
            /\ Done(r) /\ Resp(r).status = 401

\* the status each handler gives a failed stage 1
Stage1FailureStatus(ep, out) ==
    IF out.kind = "raise"
    THEN (IF ep = "stats" THEN 502 ELSE 500)
    ELSE IF ~Truthy(out.val) \/ ~HasKey(out.val, "access_token")
    THEN 401
    ELSE CASE ep = "search" -> 500
           [] ep = "stats" -> 502
           [] ep = "personal_show" -> 401

\* C1 amended: on every endpoint, when get_garena_token fails, neither
\* get_major_login nor the data function is ever invoked and the request ends
\* at once; the status is 401 when the call returned nothing or a result
\* without the access token (on personal-show also one without the open id);
\* when the call raised it is 502 on stats and 500 on search and
\* personal-show, and when the result has the access token but no open id it
\* is 500 on search and 502 on stats.
C1_Stage1FailureStops ==
    \A r \in DOMAIN pc :
        Stage1Failed(r) =>
            /\ ~Invoked(r, "get_major_login")
            /\ ~DataFetchInvoked(r)
            /\ Len(calls[r]) = 1
            /\ Done(r)
            /\ Resp(r).status = Stage1FailureStatus(endpoint[r], results[r][1])

\* get_garena_token returned a result without the open id and the request
\* ended with status 401
C1_Witness ==
    \E r \in DOMAIN pc :
        /\ Stage1Failed(r) /\ Done(r)
        /\ results[r][1].kind = "return"
        /\ HasKey(results[r][1].val, "access_token")
        /\ Resp(r).status = 401

(***************************************************************************)
(* C2: an empty result of the data function                                *)
(***************************************************************************)
\* validation and both auth stages succeeded and the data function returned
\* an empty or absent result
EmptyFetch(r) ==
    /\ FetchKnown(r)
    /\ TokenUsable(results[r][1])
    /\ LoginUsable(results[r][2])
    /\ results[r][3].kind = "return"
    /\ ~Truthy(results[r][3].val)

\* C2 as stated: on each of the three endpoints, when validation, stage 1 and
\* stage 2 succeed and the data function returns an empty or absent result,
\* the response status is 404.
C2_EmptyResultIs404 ==
    \A r \in DOMAIN pc :
        EmptyFetch(r) => Done(r) /\ Resp(r).status = 404

\* C2 amended: in that case the response status is 404 on /get_player_stats
\* and /get_player_personal_show; on /get_search_account_by_keyword the empty
\* result is serialised as the body of a 200 response.
C2_EmptyResultStatus ==
    \A r \in DOMAIN pc :
        EmptyFetch(r) =>
            /\ Done(r)
            /\ endpoint[r] \in {"stats", "personal_show"} => Resp(r).status = 404
            /\ endpoint[r] = "search" =>
                 /\ Resp(r).status = 200
                 /\ Resp(r).body = results[r][3].val

\* /get_player_stats answered 404 to an empty list of stats
C2_Witness ==
    \E r \in DOMAIN pc :
        /\ EmptyFetch(r) /\ Done(r)
        /\ endpoint[r] = "stats"
        /\ results[r][3].val = PyList(<<>>)
        /\ Resp(r).status = 404

(***************************************************************************)
(* C3: an unknown region                                                   *)
(***************************************************************************)
UnknownServer(r) == Started(r) /\ RequestedServer(r) \notin DOMAIN accounts

RegionListText == "Server '{server}' not found. Available servers: {list(accounts.keys())}"

\* the body enumerates exactly the region codes S
BodyListsRegions(resp, S) ==
    \/ /\ "available_servers" \in DOMAIN resp.body
       /\ resp.body["available_servers"] = S
    \/ /\ "message" \in DOMAIN resp.body
       /\ resp.body["message"].text = RegionListText
       /\ resp.body["message"].args[2] = S

\* C3 as stated: every request whose server parameter, upper-cased, is not a
\* key of the registry gets status 400 and a body that lists exactly the
\* configured region codes.
C3_UnknownRegionListsRegions ==
    \A r \in DOMAIN pc :
        UnknownServer(r) =>
            /\ Done(r) /\ Resp(r).status = 400
            /\ Resp(r).json = "object"
            /\ BodyListsRegions(Resp(r), DOMAIN accounts)

\* the checks each handler makes before it looks the server up all pass
ReachesRegionCheck(r) ==
    LET a == args[r]
    IN  CASE endpoint[r] = "search" ->
               "keyword" \in DOMAIN a /\ Len(Strip(a["keyword"])) >= 3
          [] endpoint[r] = "stats" -> "uid" \in DOMAIN a /\ IsDigit(a["uid"])
          [] endpoint[r] = "personal_show" ->
               "uid" \in DOMAIN a /\ a["uid"] # <<>> /\ IntParses(a["uid"]) /\ IntValue(a["uid"]) > 0

\* C3 amended: every such request gets status 400 before any external call;
\* when the checks that precede the region check pass (keyword on search, uid
\* on stats and personal-show), the body of /get_player_stats and
\* /get_player_personal_show lists exactly the configured region codes, and
\* the body of /get_search_account_by_keyword names only the rejected server.
C3_UnknownRegionRejected ==
    \A r \in DOMAIN pc :
        UnknownServer(r) =>
            /\ Done(r) /\ Resp(r).status = 400
            /\ Resp(r).json = "object"
            /\ NoExternalCall(r)
            /\ ReachesRegionCheck(r) =>
                 IF endpoint[r] = "search"
                 THEN /\ Resp(r).body["error"].text = "Invalid server: {region}"
                      /\ Resp(r).body["error"].args = <<RequestedServer(r)>>
                      /\ ~BodyListsRegions(Resp(r), DOMAIN accounts)
                 ELSE BodyListsRegions(Resp(r), DOMAIN accounts)

\* /get_player_personal_show rejected an unknown server and listed the regions
C3_Witness ==
    \E r \in DOMAIN pc :
        /\ UnknownServer(r) /\ Done(r)
        /\ endpoint[r] = "personal_show"
        /\ "server" \in DOMAIN args[r]
        /\ Resp(r).body["code"] = "SERVER_NOT_FOUND"
        /\ Resp(r).body["available_servers"] = DOMAIN accounts

(***************************************************************************)
(* C4: validation and region errors come before any external call          *)
(***************************************************************************)
\* the response is one of the rejections of the handler's parameter checks
\* (lines 30-39, 73-109, 225-303)
ValidationRejected(r) ==
    /\ Responded(r)
    /\ Resp(r).status = 400
    /\ CASE endpoint[r] = "search" ->
              Resp(r).body["error"].text \in
                {"Keyword parameter is required", "Keyword must be at least 3 characters long",
                 "Invalid server: {region}"}
         [] endpoint[r] = "stats" ->
              Resp(r).body["error"] \in
                {"Missing required parameter", "Invalid UID", "Invalid server",
                 "Invalid gamemode", "Invalid matchmode"}
         [] endpoint[r] = "personal_show" ->
              Resp(r).body["code"] \in
                {"MISSING_UID", "INVALID_UID_FORMAT", "INVALID_UID_RANGE", "SERVER_NOT_FOUND",
                 "INVALID_GALLERY_PARAM", "INVALID_CALL_SIGN_SRC", "INVALID_CALL_SIGN_FORMAT"}

\* C4: on every endpoint, when a request is rejected for a parameter-validation
\* failure or an unknown region, no external call (get_garena_token,
\* get_major_login, a data function) has been made for it when the response is
\* returned.
C4_RejectionBeforeExternalCalls ==
    \A r \in DOMAIN pc :
        ValidationRejected(r) => NoExternalCall(r) /\ results[r] = <<>>

\* /get_player_personal_show rejected need_gallery_info, its fourth check
C4_Witness ==
    \E r \in DOMAIN pc :
        /\ ValidationRejected(r)
        /\ endpoint[r] = "personal_show"
        /\ Resp(r).body["code"] = "INVALID_GALLERY_PARAM"
        /\ NoExternalCall(r)

(***************************************************************************)
(* C5: the data function is called only after both auth stages succeeded   *)
(***************************************************************************)
\* C5: in every reachable state of a request, the data function has been
\* invoked only if get_garena_token already returned a result with the access
\* token and the open id and get_major_login already returned a result with
\* the session token and the server URL, in that order, for this request.
C5_FetchOnlyAfterBothStages ==
    \A r \in DOMAIN pc :
        /\ \A i \in DOMAIN calls[r] : Len(results[r]) >= i - 1
        /\ DataFetchInvoked(r) =>
             /\ Len(calls[r]) = 3
             /\ calls[r][1].fn = "get_garena_token"
             /\ calls[r][2].fn = "get_major_login"
             /\ calls[r][3].fn \in DataFunctions
             /\ Stage2Known(r)
             /\ TokenUsable(results[r][1])
             /\ LoginUsable(results[r][2])

\* a request is blocked in its data function
C5_Witness ==
    \E r \in DOMAIN pc :
        /\ pc[r] \in DataFunctions
        /\ DataFetchInvoked(r)
        /\ Len(results[r]) = 2

(***************************************************************************)
(* C6: an unusable result of stage 2                                       *)
(***************************************************************************)
\* C6: on every endpoint, if stage 1 succeeds and get_major_login returns a
\* result that lacks the session token or the server URL (or returns nothing),
\* the request ends with status 401 and no call of the data function.
C6_UnusableLoginIs401 ==
    \A r \in DOMAIN pc :
        ( /\ Stage2Known(r)
          /\ TokenUsable(results[r][1])
          /\ results[r][2].kind = "return"
          /\ ~LoginUsable(results[r][2]) ) =>
            /\ Done(r) /\ Resp(r).status = 401
            /\ ~DataFetchInvoked(r)

(***************************************************************************)
(* C7: short keywords                                                      *)
(***************************************************************************)
ShortKeyword(r) ==
    /\ Started(r) /\ endpoint[r] = "search"
    /\ "keyword" \in DOMAIN args[r]
    /\ Len(Strip(args[r]["keyword"])) < 3

\* C7 as stated: for every keyword whose trimmed length is less than 3,
\* /get_search_account_by_keyword returns status 400 with an error message
\* that mentions the minimum keyword length, and no external call is made.
C7_ShortKeywordMinLengthMessage ==
    \A r \in DOMAIN pc :
        ShortKeyword(r) =>
            /\ Done(r) /\ Resp(r).status = 400
            /\ Resp(r).body["error"].text = "Keyword must be at least 3 characters long"
            /\ NoExternalCall(r)

\* C7 amended: for every non-empty keyword whose trimmed length is less than
\* 3 the 400 response's message mentions the minimum length; for the empty
\* keyword the 400 response says "Keyword parameter is required"; no external
\* call is made in either case.
C7_ShortKeywordRejected ==
    \A r \in DOMAIN pc :
        ShortKeyword(r) =>
            /\ Done(r) /\ Resp(r).status = 400
            /\ Resp(r).body["error"].text =
                 IF args[r]["keyword"] = <<>> THEN "Keyword parameter is required"
                 ELSE "Keyword must be at least 3 characters long"
            /\ NoExternalCall(r)

\* a keyword of four characters that trims to two was rejected for its length
C7_Witness ==
    \E r \in DOMAIN pc :
        /\ ShortKeyword(r) /\ Done(r)
        /\ Len(args[r]["keyword"]) >= 3
        /\ Len(Strip(args[r]["keyword"])) = 2
        /\ Resp(r).body["error"].text = "Keyword must be at least 3 characters long"

(***************************************************************************)
(* C8: 502 for the auth exchange, 503 for the data fetch                   *)
(***************************************************************************)
\* the last external call of the request raised, at stage n
RaisedAt(r, n) == Len(results[r]) = n /\ results[r][n].kind = "raise"

\* C8: on /get_player_stats a failure raised during the auth exchange (stage 1
\* or stage 2) yields status 502 and a connection failure raised during the
\* data fetch yields status 503; the two are never swapped: 503 is given to
\* nothing but a connection failure of the data fetch.
C8_AuthRaise502FetchConnection503 ==
    \A r \in DOMAIN pc :
        (endpoint[r] = "stats" /\ Started(r)) =>
            /\ (RaisedAt(r, 1) \/ RaisedAt(r, 2)) => Done(r) /\ Resp(r).status = 502
            /\ (RaisedAt(r, 3) /\ results[r][3].exc.cls = "ConnectionError") =>
                 Done(r) /\ Resp(r).status = 503
            /\ (Done(r) /\ Resp(r).status = 503) =>
                 RaisedAt(r, 3) /\ results[r][3].exc.cls = "ConnectionError"

\* get_major_login raised a connection failure and /get_player_stats answered 502
C8_Witness ==
    \E r \in DOMAIN pc :
        /\ endpoint[r] = "stats" /\ Done(r)
        /\ RaisedAt(r, 2)
        /\ results[r][2].exc.cls = "ConnectionError"
        /\ Resp(r).status = 502

(***************************************************************************)
(* C9: the status codes of each endpoint                                   *)
(***************************************************************************)
DocumentedStatuses(ep) ==
    CASE ep = "search" -> {200, 400, 401, 500}
      [] ep = "stats" -> {200, 400, 401, 404, 500, 502, 503}
      [] ep = "personal_show" -> {200, 400, 401, 404, 500}

\* C9: for every request and every combination of outcomes of the external
\* calls, the response status lies in the endpoint's documented set.
C9_StatusDocumented ==
    \A r \in DOMAIN pc :
        \A i \in DOMAIN responses[r] :
            responses[r][i].status \in DocumentedStatuses(endpoint[r])

\* /get_search_account_by_keyword answered 200 to an absent search result
C9_Witness ==
    \E r \in DOMAIN pc :
        /\ endpoint[r] = "search" /\ Done(r)
        /\ FetchKnown(r)
        /\ results[r][3] = Returned(PyNone)
        /\ Resp(r).status = 200

(***************************************************************************)
(* C10: every request ends with one structured response                    *)
(***************************************************************************)
\* the request is over: its handler returned or an exception left it
Ended(r) == pc[r] \in {"done", "escaped"}

\* C10 as stated: every request, whatever its inputs and whatever the external
\* calls do, ends with exactly one response carrying a JSON object body; no
\* failure escapes the handler.
C10_OneJsonObjectResponse ==
    \A r \in DOMAIN pc :
        /\ pc[r] # "escaped"
        /\ Ended(r) => Len(responses[r]) = 1 /\ Resp(r).json = "object"
        /\ ~Ended(r) => responses[r] = <<>>

\* the field of the body that describes the error
HasErrorField(resp) == resp.json = "object" /\ "error" \in DOMAIN resp.body

\* C10 amended: every request ends with exactly one response carrying a JSON
\* body and no failure escapes the handler; the body is a JSON object with an
\* error field on every response other than 200 and a JSON object on
\* /get_player_stats; on /get_search_account_by_keyword and
\* /get_player_personal_show the 200 body is the fetched result as serialised,
\* which may be an array (on search also null).
C10_OneStructuredResponse ==
    \A r \in DOMAIN pc :
        /\ pc[r] # "escaped"
        /\ ~Ended(r) => responses[r] = <<>>
        /\ Ended(r) =>
             /\ Len(responses[r]) = 1
             /\ Resp(r).json \in {"object", "array", "null"}
             /\ Resp(r).status # 200 => HasErrorField(Resp(r))
             /\ endpoint[r] = "stats" => Resp(r).json = "object"
             /\ (Resp(r).status = 200 /\ endpoint[r] # "stats") =>
                  /\ Resp(r).body = results[r][3].val
                  /\ Resp(r).json = JsonTypeOf(results[r][3].val)
             /\ Resp(r).json = "null" => endpoint[r] = "search"

\* the data function of /get_player_personal_show raised and the request
\* ended with a JSON error object
C10_Witness ==
    \E r \in DOMAIN pc :
        /\ endpoint[r] = "personal_show" /\ Ended(r)
        /\ RaisedAt(r, 3)
        /\ Len(responses[r]) = 1
        /\ HasErrorField(Resp(r))
        /\ Resp(r).status = 500

(***************************************************************************)
(* C11: requests share no token and no session                             *)
(***************************************************************************)
\* the access token and the open id a call of get_major_login was given
TokenPassed(call) == <<call.args[1], call.args[2]>>

\* the session token and the server URL a call of a data function was given
SessionPassed(call) ==
    IF call.fn = "get_player_stats" THEN <<call.args[1], call.args[2]>>
    ELSE <<call.args[2], call.args[1]>>

\* the request ran stage 1, stage 2 and its data function, each once
FullRun(r) ==
    /\ Len(calls[r]) = 3 /\ Len(results[r]) = 3
    /\ calls[r][1].fn = "get_garena_token"
    /\ calls[r][2].fn = "get_major_login"
    /\ calls[r][3].fn \in DataFunctions

\* C11: for any interleaving of requests, every request that reaches stage 2
\* passes the token its own get_garena_token call returned, every request that
\* reaches the data fetch passes the session its own get_major_login call
\* returned, and every successful request, a repeated one included, has made a
\* full stage-1, stage-2, data-fetch run of its own.
C11_OwnTokenOwnSession ==
    \A r \in DOMAIN pc :
        /\ Len(calls[r]) >= 2 =>
             /\ calls[r][2].fn = "get_major_login"
             /\ results[r][1].kind = "return"
             /\ TokenPassed(calls[r][2]) =
                  <<results[r][1].val.d["access_token"], results[r][1].val.d["open_id"]>>
        /\ Len(calls[r]) >= 3 =>
             /\ calls[r][3].fn \in DataFunctions
             /\ results[r][2].kind = "return"
             /\ SessionPassed(calls[r][3]) =
                  <<results[r][2].val.d["token"], results[r][2].val.d["serverUrl"]>>
        /\ (Done(r) /\ Resp(r).status = 200) => FullRun(r)

\* two identical requests both succeeded, each with a token and a session the
\* other did not have
C11_Witness ==
    \E r1, r2 \in DOMAIN pc :
        /\ r1 # r2
        /\ endpoint[r1] = endpoint[r2] /\ args[r1] = args[r2]
        /\ Done(r1) /\ Resp(r1).status = 200 /\ FullRun(r1)
        /\ Done(r2) /\ Resp(r2).status = 200 /\ FullRun(r2)
        /\ TokenPassed(calls[r1][2]) # TokenPassed(calls[r2][2])
        /\ SessionPassed(calls[r1][3]) # SessionPassed(calls[r2][3])

(***************************************************************************)
(* C12: the uid checks                                                     *)
(***************************************************************************)
HasUid(r) == Started(r) /\ "uid" \in DOMAIN args[r] /\ args[r]["uid"] # <<>>

\* C12: on /get_player_stats every non-empty uid that is not composed only of
\* decimal digits is rejected with status 400 and the message "UID must be a
\* numeric value"; on /get_player_personal_show every non-empty uid that
\* parses as an integer <= 0 is rejected with status 400 and code
\* INVALID_UID_RANGE, and every non-empty uid that does not parse as an integer
\* with status 400 and code INVALID_UID_FORMAT.
C12_InvalidUidRejected ==
    \A r \in DOMAIN pc :
        HasUid(r) =>
            LET uid == args[r]["uid"]
            IN  /\ (endpoint[r] = "stats" /\ ~IsDecimal(uid)) =>
                     /\ Done(r) /\ Resp(r).status = 400
                     /\ Resp(r).body["message"].text = "UID must be a numeric value"
                /\ (endpoint[r] = "personal_show" /\ IntParses(uid) /\ IntValue(uid) <= 0) =>
                     /\ Done(r) /\ Resp(r).status = 400
                     /\ Resp(r).body["code"] = "INVALID_UID_RANGE"
                /\ (endpoint[r] = "personal_show" /\ ~IntParses(uid)) =>
                     /\ Done(r) /\ Resp(r).status = 400
                     /\ Resp(r).body["code"] = "INVALID_UID_FORMAT"

(***************************************************************************)
(* C13: the success envelope of /get_player_stats                          *)
(***************************************************************************)
\* validation passed and the three external stages succeeded, the last with a
\* non-empty stats result (a JSON value: a dictionary or a list)
StatsSucceeded(r) ==
    /\ endpoint[r] = "stats"
    /\ FetchKnown(r)
    /\ TokenUsable(results[r][1])
    /\ LoginUsable(results[r][2])
    /\ results[r][3].kind = "return"
    /\ Truthy(results[r][3].val)
    /\ Serialisable(results[r][3].val)

\* the request parameters as the claim normalises them
NormalisedParameters(a) ==
    [server |-> Upper(Get(a, "server", IND)),
     uid |-> a["uid"],
     gamemode |-> Lower(Get(a, "gamemode", <<"b", "r">>)),
     matchmode |-> Upper(Get(a, "matchmode", <<"C", "A", "R", "E", "E", "R">>))]

\* C13: on /get_player_stats, when validation passes and all three external
\* stages succeed with a non-empty stats result, the response is status 200
\* with success true, data equal to the fetched result and metadata equal to
\* the normalised request parameters (server upper-cased, uid as given,
\* gamemode lower-cased, matchmode upper-cased); status 200 with success true
\* is produced in no other case.
C13_StatsSuccessEnvelope ==
    \A r \in DOMAIN pc :
        endpoint[r] = "stats" =>
            /\ StatsSucceeded(r) =>
                 /\ Done(r) /\ Resp(r).status = 200
                 /\ Resp(r).json = "object"
                 /\ DOMAIN Resp(r).body = {"success", "data", "metadata"}
                 /\ Resp(r).body["success"] = TRUE
                 /\ Resp(r).body["data"] = results[r][3].val
                 /\ Resp(r).body["metadata"] = NormalisedParameters(args[r])
            /\ (Done(r) /\ (Resp(r).status = 200 \/ Resp(r).body["success"] = TRUE)) =>
                 StatsSucceeded(r)

\* uid=10&server=ind&gamemode=CS&matchmode=career succeeded with metadata
\* IND, 10, cs, CAREER
C13_Witness ==
    \E r \in DOMAIN pc :
        /\ StatsSucceeded(r) /\ Done(r)
        /\ args[r] = [uid |-> <<"1", "0">>, server |-> <<"i", "n", "d">>,
                      gamemode |-> <<"C", "S">>, matchmode |-> <<"c", "a", "r", "e", "e", "r">>]
        /\ Resp(r).status = 200
        /\ Resp(r).body["metadata"] =
             [server |-> IND, uid |-> <<"1", "0">>, gamemode |-> <<"c", "s">>,
              matchmode |-> <<"C", "A", "R", "E", "E", "R">>]

(***************************************************************************)
(* C14: one call per stage, no retry                                       *)
(***************************************************************************)
\* the data function of each route
DataFunctionOf(ep) ==
    CASE ep = "search" -> "search_account_by_keyword"
      [] ep = "stats" -> "get_player_stats"
      [] ep = "personal_show" -> "get_player_personal_show"

\* the n-th external call of the request failed: it raised or returned a
\* result the next stage cannot use
CallFailed(r, n) ==
    /\ Len(results[r]) >= n
    /\ CASE n = 1 -> ~TokenUsable(results[r][1])
         [] n = 2 -> ~LoginUsable(results[r][2])
         [] n = 3 -> results[r][3].kind = "raise" \/ ~Truthy(results[r][3].val)

\* C14: within one request get_garena_token is invoked at most once,
\* get_major_login at most once, and at most one data function, the one of the
\* endpoint; after an external call has failed (raised or returned an unusable
\* result) no further external call is made for the request.
C14_OneCallPerStageNoRetry ==
    \A r \in DOMAIN pc :
        /\ Len(calls[r]) <= 3
        /\ \A i \in DOMAIN calls[r] :
             calls[r][i].fn = CASE i = 1 -> "get_garena_token"
                                [] i = 2 -> "get_major_login"
                                [] i = 3 -> DataFunctionOf(endpoint[r])
        /\ \A n \in 1..3 : CallFailed(r, n) => Len(calls[r]) = n /\ Done(r)

\* get_major_login returned nothing and the request ended after two calls
C14_Witness ==
    \E r \in DOMAIN pc :
        /\ CallFailed(r, 2)
        /\ results[r][2] = Returned(PyNone)
        /\ Len(calls[r]) = 2
        /\ Done(r)

(***************************************************************************)
(* C15: classification of a failure of get_player_stats                    *)
(***************************************************************************)
\* get_player_stats raised a failure of class cls and the request was answered
StatsFetchRaised(r, cls) ==
    /\ endpoint[r] = "stats"
    /\ Done(r)
    /\ RaisedAt(r, 3)
    /\ results[r][3].exc.cls = cls

\* C15: on /get_player_stats a failure raised by the data-fetch call is
\* classified by its kind: ProtobufError yields 500 "Data processing error",
\* APIError yields 502 "External API error", and any other unrecognised
\* failure yields 500 "Stats retrieval error".
C15_FetchFailureClassified ==
    \A r \in DOMAIN pc :
        /\ StatsFetchRaised(r, "ProtobufError") =>
             Resp(r).status = 500 /\ Resp(r).body["error"] = "Data processing error"
        /\ StatsFetchRaised(r, "APIError") =>
             Resp(r).status = 502 /\ Resp(r).body["error"] = "External API error"
        /\ \A cls \in ExcClasses \ {"ValueError", "ConnectionError", "ProtobufError", "APIError"} :
             StatsFetchRaised(r, cls) =>
                 Resp(r).status = 500 /\ Resp(r).body["error"] = "Stats retrieval error"

(***************************************************************************)
(* C16: the message of a caught failure is surfaced                        *)
(***************************************************************************)
\* the message field of the response holds the text txt as a formatted part
MessageContains(resp, txt) ==
    /\ "message" \in DOMAIN resp.body
    /\ \E i \in DOMAIN resp.body["message"].args : resp.body["message"].args[i] = txt

\* C16: on /get_player_stats, whenever a failure raised by an external call
\* (stage 1, stage 2 or the data fetch) is caught, the message field of the
\* response body contains that failure's message text verbatim.
C16_CaughtFailureMessageSurfaced ==
    \A r \in DOMAIN pc :
        \A n \in 1..3 :
            (endpoint[r] = "stats" /\ Done(r) /\ RaisedAt(r, n)) =>
                MessageContains(Resp(r), results[r][n].exc.msg)

(***************************************************************************)
(* C17: the account registry is read-only                                  *)
(***************************************************************************)
\* C17: the account registry is never modified by any request: no step of any
\* handler, in any interleaving of requests to the three endpoints and with
\* any outcomes of the external calls, changes accounts, so the registry
\* always equals the value loaded at process start.
C17_RegistryNeverModified == [][accounts' = accounts]_vars

\* two requests to different endpoints have both been answered, one of them
\* after all three external calls
C17_Witness ==
    \E r1, r2 \in DOMAIN pc :
        /\ endpoint[r1] = "stats" /\ endpoint[r2] = "personal_show"
        /\ Done(r1) /\ Done(r2)
        /\ Len(results[r1]) = 3
        /\ Len(results[r2]) >= 1

(***************************************************************************)
(* C18: the first unmet constraint is the one reported                     *)
(***************************************************************************)
\* the constraints of /get_player_stats in their fixed order: uid missing,
\* uid not numeric, unknown server, invalid gamemode, invalid matchmode
ConstraintUnmet(a, accts, i) ==
    CASE i = 1 -> "uid" \notin DOMAIN a \/ a["uid"] = <<>>
      [] i = 2 -> "uid" \in DOMAIN a /\ a["uid"] # <<>> /\ ~IsDecimal(a["uid"])
      [] i = 3 -> Upper(Get(a, "server", IND)) \notin DOMAIN accts
      [] i = 4 -> Lower(Get(a, "gamemode", <<"b", "r">>)) \notin {<<"b", "r">>, <<"c", "s">>}
      [] i = 5 -> Upper(Get(a, "matchmode", <<"C", "A", "R", "E", "E", "R">>)) \notin
                      {<<"C", "A", "R", "E", "E", "R">>, <<"N", "O", "R", "M", "A", "L">>,
                       <<"R", "A", "N", "K", "E", "D">>}

ConstraintError(i) ==
    CASE i = 1 -> "Missing required parameter"
      [] i = 2 -> "Invalid UID"
      [] i = 3 -> "Invalid server"
      [] i = 4 -> "Invalid gamemode"
      [] i = 5 -> "Invalid matchmode"

UnmetConstraints(r) == {i \in 1..5 : ConstraintUnmet(args[r], accounts, i)}

\* C18: on /get_player_stats, when several parameters are invalid at once, the
\* response is 400 and reports exactly the first unmet constraint in the order
\* uid missing, uid not numeric, unknown server, invalid gamemode, invalid
\* matchmode; no later constraint is reported.
C18_FirstUnmetConstraintReported ==
    \A r \in DOMAIN pc :
        (endpoint[r] = "stats" /\ Started(r) /\ Cardinality(UnmetConstraints(r)) >= 2) =>
            /\ Done(r)
            /\ Resp(r).status = 400
            /\ \E i \in UnmetConstraints(r) :
                 /\ \A j \in UnmetConstraints(r) : i <= j
                 /\ Resp(r).body["error"] = ConstraintError(i)

(***************************************************************************)
(* C19: status 400 and external calls                                      *)
(***************************************************************************)
\* C19: on every endpoint a response with status 400 is returned only for a
\* request for which no external call has been made; once any external call
\* has been invoked for a request, its response status is never 400.
C19_Status400OnlyBeforeExternalCalls ==
    \A r \in DOMAIN pc :
        (Done(r) /\ Resp(r).status = 400) => NoExternalCall(r)

\* C19 amended: on /get_search_account_by_keyword and
\* /get_player_personal_show a response with status 400 is returned only for a
\* request for which no external call has been made; on /get_player_stats a
\* 400 is returned either before any external call or after all three, when
\* get_player_stats raised a ValueError, and then with the error "Invalid
\* request parameters".
C19_Status400BeforeCallsOrFetchValueError ==
    \A r \in DOMAIN pc :
        (Done(r) /\ Resp(r).status = 400) =>
            \/ NoExternalCall(r)
            \/ /\ endpoint[r] = "stats"
               /\ Len(calls[r]) = 3
               /\ RaisedAt(r, 3)
               /\ results[r][3].exc.cls = "ValueError"
               /\ Resp(r).body["error"] = "Invalid request parameters"

\* /get_player_stats answered 400 after its three external calls
C19_Witness ==
    \E r \in DOMAIN pc :
        /\ endpoint[r] = "stats"
        /\ Done(r) /\ Resp(r).status = 400
        /\ Len(calls[r]) = 3
        /\ Invoked(r, "get_player_stats")

====
